---- MODULE Spec2Model ----
(***************************************************************************)
(* A model of the wcstr crate: the owned wide string WCString, the         *)
(* borrowed view WCStr, the errors NulError / NoNulError and the Split     *)
(* iterator.  A Vec<u16> or a [u16] is a sequence of code units, text      *)
(* (an OsStr) is a sequence of code points that encode_wide turns into     *)
(* code units.  Indices of the source are 0-based; the sequences here are  *)
(* 1-based, so position i of the source is element i + 1.                  *)
(***************************************************************************)
EXTENDS Integers, Sequences, FiniteSets, TLC

\* ------------------------------------------------------------------ bounds
\* longest Vec<u16> / [u16] handed to an operation
MaxLen == 2
\* longest text (in code points) handed to an operation
MaxText == 2
\* longest stored sequence (terminator included) an append may produce
MaxInner == 4
\* longest payload of a buffer that is split
MaxSplitLen == 5
\* longest payload of a buffer that is debug-formatted
MaxFmtLen == 2
\* number of fmt frames the thread's stack holds
MaxStack == 8

\* ------------------------------------------------------ program constants
\* 0xD800, the first code unit of the surrogate range
SURROGATE_START == 55296
\* 0xE000, the first code unit after the surrogate range
SURROGATE_END == 57344

\* ------------------------------------------------------------ input sets
\* code units of the Vec<u16> and [u16] arguments: nul, ';' and 'a'
U16s == {0, 59, 97}
\* code points of the text arguments: nul, 'a' and U+10000
Chars == {0, 97, 65536}

\* code units of the buffers that are split: ';' and 'a'
SplitUnits == {59, 97}
\* delimiters: nul and ';'
Delims == {0, 59}
\* code units of the buffers that are formatted: '"', 'a' and a lone surrogate
FmtUnits == {34, 97, SURROGATE_START}

SeqsUpTo(S, n) == UNION {[1..k -> S] : k \in 0..n}
Vecs == SeqsUpTo(U16s, MaxLen)
Texts == SeqsUpTo(Chars, MaxText)
SplitPayloads == SeqsUpTo(SplitUnits, MaxSplitLen)
FmtPayloads == SeqsUpTo(FmtUnits, MaxFmtLen)

\* ------------------------------------------------------- Option / Result
None == <<>>
Some(x) == <<x>>

\* error::nul
nul(p, s) == [kind |-> "NulError", pos |-> p, vec |-> s]
\* error::no_nul
no_nul(s) == [kind |-> "NoNulError", pos |-> -1, vec |-> s]
NoError == [kind |-> "none", pos |-> -1, vec |-> None]
\* NulError::nul_position
nul_position(e) == e.pos
\* NulError::into_vec
NulError_into_vec(e) == e.vec
\* NoNulError::into_vec
NoNulError_into_vec(e) == e.vec

Ok(x) == [ok |-> TRUE, val |-> x, err |-> NoError]
Err(e) == [ok |-> FALSE, val |-> <<>>, err |-> e]

\* ------------------------------------------------------- slice helpers
\* s.iter().position(|&x| x == w): the 0-based index of the first w, -1 for None
position(s, w) ==
    IF \A k \in 1..Len(s) : s[k] # w THEN -1
    ELSE (CHOOSE k \in 1..Len(s) : s[k] = w /\ \A j \in 1..(k - 1) : s[j] # w) - 1

\* Vec::pop, the vector that is left
pop(v) == SubSeq(v, 1, Len(v) - 1)
\* Vec::truncate
truncate(v, n) == IF n < Len(v) THEN SubSeq(v, 1, n) ELSE v
\* Vec::extend
extend(v, s) == v \o s
\* Vec::push
push_unit(v, w) == Append(v, w)

\* one code point as UTF-16: itself below U+10000, else the surrogate pair
\* 0xD800 + high ten bits, 0xDC00 + low ten bits of (c - 0x10000)
EncodeChar(c) ==
    IF c < 65536 THEN <<c>>
    ELSE << 55296 + ((c - 65536) \div 1024), 56320 + ((c - 65536) % 1024) >>
RECURSIVE encode_wide(_)
\* OsStrExt::encode_wide
encode_wide(t) == IF t = <<>> THEN <<>> ELSE EncodeChar(Head(t)) \o encode_wide(Tail(t))

\* take_while(|&w| { not_nuled = w != 0; not_nuled }): the units taken
take_while_not_nul(s) ==
    IF position(s, 0) = -1 THEN s ELSE SubSeq(s, 1, position(s, 0))
\* the flag not_nuled after the take_while has run
not_nuled_after(s) == position(s, 0) = -1

\* ------------------------------------------------------------ WCStr
\* WCStr::from_slice_with_nul
from_slice_with_nul(slice) ==
    IF position(slice, 0) = -1 THEN Err(no_nul(None))
    ELSE Ok(SubSeq(slice, 1, position(slice, 0) + 1))
\* WCStr::len
len(inner_) == Len(inner_) - 1
\* WCStr::to_slice
to_slice(inner_) == SubSeq(inner_, 1, len(inner_))
\* WCStr::to_slice_with_nul
to_slice_with_nul(inner_) == inner_

\* ------------------------------------------------------------ WCString
\* WCString::new
new == <<0>>
\* WCString::from_vec_with_nul_unchecked
from_vec_with_nul_unchecked(v) == v
\* WCString::from_vec_unchecked
from_vec_unchecked(v) == from_vec_with_nul_unchecked(push_unit(v, 0))
\* from_vec taking a zero in the last position for the terminator
from_vec_trailing_ok(v) ==
    IF position(v, 0) = -1 THEN Ok(from_vec_unchecked(v))
    ELSE IF position(v, 0) = Len(v) - 1 THEN Ok(from_vec_with_nul_unchecked(v))
    ELSE Err(nul(position(v, 0), Some(v)))
\* WCString::from_vec
from_vec(v) ==
    IF position(v, 0) # -1 THEN Err(nul(position(v, 0), Some(v)))
    ELSE Ok(from_vec_unchecked(v))
\* from_vec_with_nul without the truncate
from_vec_with_nul_no_truncate(u16s) ==
    IF position(u16s, 0) = -1 THEN Err(no_nul(Some(u16s)))
    ELSE Ok(from_vec_with_nul_unchecked(u16s))
\* WCString::from_vec_with_nul
from_vec_with_nul(u16s) ==
    IF position(u16s, 0) = -1 THEN Err(no_nul(Some(u16s)))
    ELSE Ok(from_vec_with_nul_unchecked(truncate(u16s, position(u16s, 0) + 1)))
\* WCString::from_str
from_str(s) == from_vec(encode_wide(s))
\* WCString::from_str_with_nul
from_str_with_nul(s) == from_vec_with_nul(encode_wide(s))
\* into_vec without the pop
into_vec_no_pop(self) == self
\* WCString::into_vec
into_vec(self) == pop(self)
\* WCString::into_vec_with_nul
into_vec_with_nul(self) == self
\* Deref for WCString: the view over the same storage
deref(self) == self

\* The appends take &mut self: each gives the storage after the call and
\* the value returned.
\* push without the pop of the terminator
push_no_pop(self, s) ==
    [self |-> extend(self, to_slice_with_nul(s)), ret |-> Ok(<<>>)]
\* WCString::push
push(self, s) ==
    [self |-> extend(pop(self), to_slice_with_nul(s)), ret |-> Ok(<<>>)]
\* WCString::push_slice
push_slice(self, s) ==
    IF position(s, 0) # -1 THEN [self |-> self, ret |-> Err(nul(position(s, 0), None))]
    ELSE [self |-> push_unit(extend(pop(self), s), 0), ret |-> Ok(<<>>)]
\* push_slice_with_nul extending with the whole slice
push_slice_with_nul_whole(self, s) ==
    IF position(s, 0) = -1 THEN [self |-> self, ret |-> Err(no_nul(None))]
    ELSE [self |-> extend(pop(self), s), ret |-> Ok(<<>>)]
\* WCString::push_slice_with_nul
push_slice_with_nul(self, s) ==
    IF position(s, 0) = -1 THEN [self |-> self, ret |-> Err(no_nul(None))]
    ELSE [self |-> extend(pop(self), SubSeq(s, 1, position(s, 0) + 1)),
          ret |-> Ok(<<>>)]
\* push_str without the truncate on the failure path
push_str_no_rollback(self, s) ==
    LET popped == pop(self)
        len0 == Len(popped)
        ext == extend(popped, take_while_not_nul(encode_wide(s)))
    IN  IF not_nuled_after(encode_wide(s))
        THEN [self |-> push_unit(ext, 0), ret |-> Ok(<<>>)]
        ELSE [self |-> push_unit(ext, 0), ret |-> Err(nul(Len(ext) - len0, None))]
\* push_str reporting the position within the whole buffer
push_str_abs_pos(self, s) ==
    LET popped == pop(self)
        len0 == Len(popped)
        ext == extend(popped, take_while_not_nul(encode_wide(s)))
    IN  IF not_nuled_after(encode_wide(s))
        THEN [self |-> push_unit(ext, 0), ret |-> Ok(<<>>)]
        ELSE [self |-> push_unit(truncate(ext, len0), 0),
              ret |-> Err(nul(Len(ext), None))]
\* WCString::push_str
push_str(self, s) ==
    LET popped == pop(self)
        len0 == Len(popped)
        ext == extend(popped, take_while_not_nul(encode_wide(s)))
    IN  IF not_nuled_after(encode_wide(s))
        THEN [self |-> push_unit(ext, 0), ret |-> Ok(<<>>)]
        ELSE [self |-> push_unit(truncate(ext, len0), 0),
              ret |-> Err(nul(Len(ext) - len0, None))]
\* WCString::push_str_with_nul
push_str_with_nul(self, s) ==
    LET popped == pop(self)
        len0 == Len(popped)
        ext == extend(popped, take_while_not_nul(encode_wide(s)))
    IN  IF not_nuled_after(encode_wide(s))
        THEN [self |-> push_unit(truncate(ext, len0), 0), ret |-> Err(no_nul(None))]
        ELSE [self |-> push_unit(ext, 0), ret |-> Ok(<<>>)]

\* ------------------------------------------------------------ WCStr queries
RECURSIVE all_zip_eq(_, _)
\* a.iter().zip(b.iter()).all(|(&a, &b)| a == b)
all_zip_eq(a, b) ==
    IF a = <<>> \/ b = <<>> THEN TRUE
    ELSE IF Head(a) = Head(b) THEN all_zip_eq(Tail(a), Tail(b))
    ELSE FALSE
\* starts_with without the early return for a longer candidate
starts_with_no_len_check(self, s) == all_zip_eq(to_slice(self), to_slice(s))
\* WCStr::starts_with
starts_with(self, s) ==
    IF len(s) > len(self) THEN FALSE
    ELSE all_zip_eq(to_slice(self), to_slice(s))
RECURSIVE starts_with_str_loop(_, _)
\* the while let loop of starts_with_str over s_iter and t_iter
starts_with_str_loop(s_iter, t_iter) ==
    IF s_iter = <<>> THEN TRUE
    ELSE IF t_iter # <<>> /\ Head(s_iter) = Head(t_iter)
         THEN starts_with_str_loop(Tail(s_iter), Tail(t_iter))
    ELSE FALSE
\* WCStr::starts_with_str
starts_with_str(self, s) == starts_with_str_loop(encode_wide(s), to_slice(self))

\* ------------------------------------------------------------ Debug
\* one hexadecimal digit as a character, upper case for {:X}
HexDigitUpper(d) == IF d < 10 THEN 48 + d ELSE 55 + d
HexDigitLower(d) == IF d < 10 THEN 48 + d ELSE 87 + d
RECURSIVE HexUpper(_)
\* {:X}
HexUpper(n) ==
    IF n < 16 THEN <<HexDigitUpper(n)>>
    ELSE HexUpper(n \div 16) \o <<HexDigitUpper(n % 16)>>
RECURSIVE HexLower(_)
HexLower(n) ==
    IF n < 16 THEN <<HexDigitLower(n)>>
    ELSE HexLower(n \div 16) \o <<HexDigitLower(n % 16)>>
\* char::escape_default: \t \r \n \' \" \\ escaped, printable ASCII as is,
\* anything else as \u{hex}; the characters written, as code points
escape_default(c) ==
    IF c = 9 THEN <<92, 116>>
    ELSE IF c = 13 THEN <<92, 114>>
    ELSE IF c = 10 THEN <<92, 110>>
    ELSE IF c \in {39, 34, 92} THEN <<92, c>>
    ELSE IF c >= 32 /\ c <= 126 THEN <<c>>
    ELSE <<92, 117, 123>> \o HexLower(c) \o <<125>>
\* the body of the for loop of Debug for WCStr, for the code unit w
wcstr_fmt_unit(w) ==
    IF w < SURROGATE_START \/ w >= SURROGATE_END THEN escape_default(w)
    ELSE <<92, 117, 123>> \o HexUpper(w) \o <<125>>
RECURSIVE wcstr_fmt_units(_)
wcstr_fmt_units(s) ==
    IF s = <<>> THEN <<>> ELSE wcstr_fmt_unit(Head(s)) \o wcstr_fmt_units(Tail(s))
\* Debug for WCStr: what fmt writes
wcstr_fmt(self) == <<34>> \o wcstr_fmt_units(to_slice(self)) \o <<34>>
\* Debug for WCString: the impl that std::fmt::Debug::fmt(&self, formatter)
\* resolves to.  Inside fmt self is &WCString, so &self is &&WCString and
\* Self is &WCString, whose impl (Debug for &T) calls T's fmt again.
wcstring_fmt_callee(frame) ==
    IF frame = "WCString" THEN "&WCString" ELSE "WCString"

\* ------------------------------------------------------------ Split
\* split::new leaving the terminator in place
split_new_no_seed(buffer_, delim_) == [buffer |-> buffer_, offset |-> 0]
\* split::new
split_new(buffer_, delim_) ==
    [buffer |-> [buffer_ EXCEPT ![Len(buffer_)] = delim_], offset |-> 0]
\* next without self.buffer[pos] = 0
split_next_no_nul(self) ==
    IF self.offset < Len(self.buffer)
    THEN LET d == self.buffer[Len(self.buffer)]
             pos == position(self.buffer, d)
         IN  IF pos = -1 \/ self.offset > pos + 1
             THEN [panic |-> TRUE, self |-> self, item |-> None, wrote |-> -1]
             ELSE [panic |-> FALSE,
                   self |-> [buffer |-> self.buffer, offset |-> pos + 1],
                   item |-> Some(SubSeq(self.buffer, self.offset + 1, pos + 1)),
                   wrote |-> -1]
    ELSE [panic |-> FALSE, self |-> self, item |-> None, wrote |-> -1]
\* next putting the delimiter back where the previous view ended
split_next_restore(self) ==
    IF self.offset < Len(self.buffer)
    THEN LET d == self.buffer[Len(self.buffer)]
             pos == position(self.buffer, d)
             buf == [self.buffer EXCEPT ![pos + 1] = 0]
             res == IF self.offset > 0 THEN [buf EXCEPT ![self.offset] = d] ELSE buf
         IN  IF pos = -1 \/ self.offset > pos + 1
             THEN [panic |-> TRUE, self |-> self, item |-> None, wrote |-> -1]
             ELSE [panic |-> FALSE,
                   self |-> [buffer |-> res, offset |-> pos + 1],
                   item |-> Some(SubSeq(res, self.offset + 1, pos + 1)),
                   wrote |-> pos]
    ELSE [panic |-> FALSE, self |-> self, item |-> None, wrote |-> -1]
\* Iterator::next for &mut Split: the Split after the call, the item returned
\* and the index written; unwrap() of a None position and a slice whose start
\* is past its end panic
split_next(self) ==
    IF self.offset < Len(self.buffer)
    THEN LET d == self.buffer[Len(self.buffer)]
             pos == position(self.buffer, d)
             buf == [self.buffer EXCEPT ![pos + 1] = 0]
         IN  IF pos = -1 \/ self.offset > pos + 1
             THEN [panic |-> TRUE, self |-> self, item |-> None, wrote |-> -1]
             ELSE [panic |-> FALSE,
                   self |-> [buffer |-> buf, offset |-> pos + 1],
                   item |-> Some(SubSeq(buf, self.offset + 1, pos + 1)),
                   wrote |-> pos]
    ELSE [panic |-> FALSE, self |-> self, item |-> None, wrote |-> -1]

\* ------------------------------------------------------------ state
VARIABLES
    pc,      \* "none": no owned buffer exists;  "owned": inner is a WCString;
             \* "split": the buffer was moved into a Split;  "panic" and
             \* "stack_overflow": the thread has died
    inner,   \* WCString.inner, the stored sequence of the owned buffer
    origin,  \* the constructor call that returned the buffer as it now is
    result,  \* the last call: its name, its argument and what it returned
    buffer,  \* Split.buffer
    offset,  \* Split.offset
    delim,   \* the delimiter split() was called with
    yielded, \* the views next() has returned, in order, each with its range
    stack,   \* the fmt calls in progress, innermost last
    out      \* what the Formatter has been given

splitVars == <<buffer, offset, delim, yielded>>
fmtVars == <<stack, out>>
vars == <<pc, inner, origin, result, buffer, offset, delim, yielded, stack, out>>

Call(op, arg, ret) == [op |-> op, arg |-> arg, ret |-> ret]
NoCall == Call("none", <<>>, Ok(<<>>))
NoOrigin == [op |-> "none", arg |-> <<>>]

NoSplit ==
    /\ buffer = <<>>
    /\ offset = 0
    /\ delim = 0
    /\ yielded = <<>>
NoFmt ==
    /\ stack = <<>>
    /\ out = <<>>

Init ==
    /\ pc = "none"
    /\ inner = <<>>
    /\ origin = NoOrigin
    /\ result = NoCall
    /\ NoSplit
    /\ NoFmt

\* a constructor returned r for the argument arg
Construct(op, arg, r) ==
    /\ pc = "none"
    /\ result' = Call(op, arg, r)
    /\ IF r.ok
       THEN /\ pc' = "owned"
            /\ inner' = r.val
            /\ origin' = [op |-> op, arg |-> arg]
       ELSE UNCHANGED <<pc, inner, origin>>
    /\ UNCHANGED <<splitVars, fmtVars>>

New == Construct("new", <<>>, Ok(new))
FromVec == \E v \in Vecs : Construct("from_vec", v, from_vec(v))
FromVecWithNul == \E v \in Vecs : Construct("from_vec_with_nul", v, from_vec_with_nul(v))
FromStr == \E t \in Texts : Construct("from_str", t, from_str(t))
FromStrWithNul == \E t \in Texts : Construct("from_str_with_nul", t, from_str_with_nul(t))

\* an append returned r.ret for the argument arg and left r.self
Append_(op, arg, r) ==
    /\ pc = "owned"
    /\ Len(r.self) <= MaxInner
    /\ inner' = r.self
    /\ result' = Call(op, arg, r.ret)
    /\ origin' = IF r.self = inner /\ ~r.ret.ok THEN origin ELSE NoOrigin
    /\ UNCHANGED <<pc, splitVars, fmtVars>>

\* the view pushed is one a safe constructor gives: from_slice_with_nul
Push ==
    \E s \in Vecs :
        /\ from_slice_with_nul(s).ok
        /\ Append_("push", from_slice_with_nul(s).val,
                   push(inner, from_slice_with_nul(s).val))
PushSlice == \E s \in Vecs : Append_("push_slice", s, push_slice(inner, s))
PushSliceWithNul ==
    \E s \in Vecs : Append_("push_slice_with_nul", s, push_slice_with_nul(inner, s))
PushStr == \E t \in Texts : Append_("push_str", t, push_str(inner, t))
PushStrWithNul ==
    \E t \in Texts : Append_("push_str_with_nul", t, push_str_with_nul(inner, t))

\* into_vec / into_vec_with_nul consume the buffer
Consume(op, v) ==
    /\ pc = "owned"
    /\ pc' = "none"
    /\ inner' = <<>>
    /\ result' = Call(op, inner, Ok(v))
    /\ UNCHANGED <<origin, splitVars, fmtVars>>
IntoVec == Consume("into_vec", into_vec(inner))
IntoVecWithNul == Consume("into_vec_with_nul", into_vec_with_nul(inner))

Next ==
    \/ New
    \/ FromVec
    \/ FromVecWithNul
    \/ FromStr
    \/ FromStrWithNul
    \/ Push
    \/ PushSlice
    \/ PushSliceWithNul
    \/ PushStr
    \/ PushStrWithNul
    \/ IntoVec
    \/ IntoVecWithNul

Spec == Init /\ [][Next]_vars

\* ------------------------------------------------- owned buffer: claims
\* the stored sequence v is a nul-free run followed by one nul
Terminated(v) ==
    /\ Len(v) >= 1
    /\ v[Len(v)] = 0
    /\ \A k \in 1..(Len(v) - 1) : v[k] # 0
NulFree(s) == \A k \in 1..Len(s) : s[k] # 0
\* i is the 0-based index of the first zero of s
FirstZeroAt(s, i) ==
    /\ i + 1 \in 1..Len(s)
    /\ s[i + 1] = 0
    /\ \A k \in 1..i : s[k] # 0
FalliblePushes == {"push_slice", "push_slice_with_nul", "push_str", "push_str_with_nul"}
Pushes == FalliblePushes \cup {"push"}

\* C1: an owned buffer built by a safe constructor and then appended to by
\* any sequence of push, push_slice, push_slice_with_nul, push_str and
\* push_str_with_nul calls, failed or not, stores a non-empty sequence whose
\* last code unit is 0 and whose other code units are not 0.
C1_BufferInvariant == pc = "owned" => Terminated(inner)
\* a failed push_str that had appended units, on a buffer that holds some
C1_Witness ==
    /\ pc = "owned"
    /\ result.op = "push_str"
    /\ ~result.ret.ok
    /\ result.ret.err.pos >= 1
    /\ Len(inner) >= 2

\* C2: a push_slice, push_slice_with_nul, push_str or push_str_with_nul call
\* that returns an error leaves the stored sequence as it was before the call.
C2_FailedPushUnchanged ==
    [][(pc = "owned" /\ result'.op \in FalliblePushes /\ ~result'.ret.ok)
         => inner' = inner]_vars
\* push_str failed on a nul that follows other units ("a\0"), buffer not empty
C2_Witness ==
    /\ result.op = "push_str"
    /\ ~result.ret.ok
    /\ result.ret.err.pos >= 1
    /\ len(inner) >= 1

\* C3: from_vec(s) succeeds for every s without a zero, into_vec() on the
\* buffer it returned gives s and into_vec_with_nul() gives s followed by 0.
C3_FromVecRoundTrip ==
    /\ (result.op = "from_vec" /\ NulFree(result.arg)) => result.ret.ok
    /\ (result.op = "into_vec" /\ origin.op = "from_vec")
         => result.ret.val = origin.arg
    /\ (result.op = "into_vec_with_nul" /\ origin.op = "from_vec")
         => result.ret.val = origin.arg \o <<0>>
\* into_vec() was called on what from_vec returned for two units or more
C3_Witness ==
    /\ result.op = "into_vec"
    /\ origin.op = "from_vec"
    /\ Len(origin.arg) >= 2

\* C4: from_vec(s) of an s whose first zero is at index i, the last position
\* included, fails with a NulError whose nul_position() is i and whose
\* into_vec() is Some(s).
C4_FromVecRejectsNul ==
    (result.op = "from_vec" /\ ~NulFree(result.arg)) =>
        /\ ~result.ret.ok
        /\ result.ret.err.kind = "NulError"
        /\ FirstZeroAt(result.arg, nul_position(result.ret.err))
        /\ NulError_into_vec(result.ret.err) = Some(result.arg)
\* from_vec was given a sequence whose only zero is its last unit
C4_Witness ==
    /\ result.op = "from_vec"
    /\ Len(result.arg) >= 2
    /\ FirstZeroAt(result.arg, Len(result.arg) - 1)
    /\ ~result.ret.ok

\* C5: from_vec_with_nul(s) succeeds exactly when s holds a zero; with the
\* first zero at index i the buffer stores s[0..=i], so len() = i; without a
\* zero it fails with a NoNulError whose into_vec() is Some(s), not truncated.
C5_FromVecWithNul ==
    result.op = "from_vec_with_nul" =>
        /\ result.ret.ok <=> ~NulFree(result.arg)
        /\ result.ret.ok =>
             /\ FirstZeroAt(result.arg, len(result.ret.val))
             /\ result.ret.val = SubSeq(result.arg, 1, len(result.ret.val) + 1)
        /\ ~result.ret.ok =>
             /\ result.ret.err.kind = "NoNulError"
             /\ NoNulError_into_vec(result.ret.err) = Some(result.arg)
\* from_vec_with_nul was given units after the first zero and dropped them
C5_Witness ==
    /\ result.op = "from_vec_with_nul"
    /\ result.ret.ok
    /\ Len(result.arg) > Len(result.ret.val)

\* C9: an error's into_vec() is Some only when the failing call was given a
\* Vec<u16>; every failing call given text or a borrowed slice has None.
C9_BufferOnlyFromVec ==
    ~result.ret.ok =>
        /\ result.op \in {"from_vec", "from_vec_with_nul"}
             => result.ret.err.vec = Some(result.arg)
        /\ result.op \in ({"from_str", "from_str_with_nul", "from_slice_with_nul"}
                            \cup FalliblePushes)
             => result.ret.err.vec = None

\* the units of s strictly before its first zero, all of s without one
BeforeFirstZero(s) ==
    IF NulFree(s) THEN s
    ELSE SubSeq(s, 1, CHOOSE i \in 0..(Len(s) - 1) : FirstZeroAt(s, i))
\* the units a successful append named op takes from its argument arg
Accepted(op, arg) ==
    IF op = "push" THEN to_slice(arg)
    ELSE IF op = "push_slice" THEN arg
    ELSE IF op = "push_slice_with_nul" THEN BeforeFirstZero(arg)
    ELSE IF op = "push_str" THEN encode_wide(arg)
    ELSE BeforeFirstZero(encode_wide(arg))

\* C11: a successful append leaves the old payload followed by the accepted
\* units of its input, then the terminator, and changes nothing else: push
\* always succeeds and appends the view's payload, push_slice all of s,
\* push_str all encoded units of t, push_slice_with_nul and
\* push_str_with_nul the units strictly before the first zero of the input.
C11_AppendOnSuccess ==
    [][(pc = "owned" /\ result'.op \in Pushes) =>
         /\ result'.op = "push" => result'.ret.ok
         /\ result'.ret.ok =>
              /\ inner' = to_slice(inner) \o Accepted(result'.op, result'.arg) \o <<0>>
              /\ len(inner') = len(inner) + Len(Accepted(result'.op, result'.arg))
              /\ UNCHANGED <<pc, splitVars, fmtVars>>]_vars
\* push_str_with_nul kept a surrogate pair that came before the nul, on a
\* buffer that held units already
C11_Witness ==
    /\ pc = "owned"
    /\ result.op = "push_str_with_nul"
    /\ result.ret.ok
    /\ Len(BeforeFirstZero(encode_wide(result.arg))) >= 2
    /\ len(inner) > Len(BeforeFirstZero(encode_wide(result.arg)))

\* C12: a failed push_str(t) reports the index of the first zero among the
\* encoded code units of t, whatever the buffer held; a failed
\* push_slice(s) reports the index of the first zero of s.
C12_NulPositionInInput ==
    /\ (result.op = "push_str" /\ ~result.ret.ok) =>
         /\ result.ret.err.kind = "NulError"
         /\ FirstZeroAt(encode_wide(result.arg), nul_position(result.ret.err))
    /\ (result.op = "push_slice" /\ ~result.ret.ok) =>
         /\ result.ret.err.kind = "NulError"
         /\ FirstZeroAt(result.arg, nul_position(result.ret.err))
\* push_str failed on U+10000 followed by nul, on a buffer that holds units:
\* the zero is unit 2 of the text's encoding, though its second code point
C12_Witness ==
    /\ pc = "owned"
    /\ result.op = "push_str"
    /\ ~result.ret.ok
    /\ nul_position(result.ret.err) = 2
    /\ Len(result.arg) = 2
    /\ len(inner) >= 1

\* ------------------------------------------------------------ splitting
\* a buffer as from_vec returns it for the payload p
Built(p) ==
    /\ pc = "owned"
    /\ inner = from_vec(p).val
    /\ origin = [op |-> "from_vec", arg |-> p]
    /\ result = Call("from_vec", p, from_vec(p))

InitSplit ==
    /\ \E p \in SplitPayloads : Built(p)
    /\ NoSplit
    /\ NoFmt

\* WCString::split: the buffer moves into the Split
Split ==
    /\ pc = "owned"
    /\ \E d \in Delims :
         /\ buffer' = split_new(inner, d).buffer
         /\ offset' = split_new(inner, d).offset
         /\ delim' = d
         /\ result' = Call("split", <<d>>, Ok(<<>>))
    /\ yielded' = <<>>
    /\ pc' = "split"
    /\ inner' = <<>>
    /\ UNCHANGED <<origin, fmtVars>>

\* one next() call on the iterator
SplitNext ==
    /\ pc = "split"
    /\ LET r == split_next([buffer |-> buffer, offset |-> offset])
       IN  /\ pc' = IF r.panic THEN "panic" ELSE "split"
           /\ buffer' = r.self.buffer
           /\ offset' = r.self.offset
           /\ yielded' = IF r.item = None THEN yielded
                         ELSE Append(yielded, [lo |-> offset, hi |-> r.self.offset,
                                               view |-> r.item[1]])
           \* next() takes no argument: arg lists the indices the call wrote
           /\ result' = Call("next", IF r.wrote = -1 THEN <<>> ELSE <<r.wrote>>,
                             Ok(r.item))
    /\ UNCHANGED <<inner, origin, delim, fmtVars>>

NextSplit ==
    \/ Split
    \/ SplitNext

SpecSplit == InitSplit /\ [][NextSplit]_vars

\* the indices (1-based) of the payload p that hold d
DelimAt(p, d) == {k \in 1..Len(p) : p[k] = d}
\* the k-th smallest element of the set S, Len(p) + 1 past the last and 0
\* before the first
Boundary(p, S, k) ==
    IF k = 0 THEN 0
    ELSE IF k > Cardinality(S) THEN Len(p) + 1
    ELSE CHOOSE x \in S : Cardinality({y \in S : y < x}) = k - 1
\* the k-th maximal d-free run of p, from the left
Run(p, d, k) ==
    SubSeq(p, Boundary(p, DelimAt(p, d), k - 1) + 1, Boundary(p, DelimAt(p, d), k) - 1)

\* C6: next() on split(d) of a buffer with payload p yields, in order, the
\* maximal d-free runs of p, each followed by a single 0: one view more than
\* p holds occurrences of d, and None after them and not before.
C6_SplitYieldsRuns ==
    pc = "split" =>
        LET p == origin.arg
            n == Cardinality(DelimAt(p, delim))
        IN  /\ Len(yielded) <= n + 1
            /\ \A k \in 1..Len(yielded) : yielded[k].view = Run(p, delim, k) \o <<0>>
            /\ (result.op = "next" /\ result.ret.val = None) => Len(yielded) = n + 1
            /\ Len(yielded) = n + 1 =>
                 split_next([buffer |-> buffer, offset |-> offset]).item = None
\* "a;a;a" on ';': three views of length 1, then None
C6_Witness ==
    /\ pc = "split"
    /\ delim = 59
    /\ result.op = "next"
    /\ result.ret.val = None
    /\ Len(yielded) = 3
    /\ \A k \in 1..3 : len(yielded[k].view) = 1

\* C7: offset never exceeds the buffer length and never decreases; while it
\* is below the length the last element is the delimiter, so the scan finds
\* a position, at or after offset, and no call panics; a call that yields
\* increases offset, so at most buffer-length calls yield, and a call made
\* when offset is the length returns None and changes nothing.
C7_SplitProgress ==
    /\ [](pc # "panic")
    /\ [](pc = "split" =>
            /\ offset <= Len(buffer)
            /\ Len(yielded) <= Len(buffer)
            /\ offset < Len(buffer) =>
                 /\ buffer[Len(buffer)] = delim
                 /\ position(buffer, delim) >= offset)
    /\ [][pc = "split" =>
            /\ offset' >= offset
            /\ Len(yielded') > Len(yielded) => offset' > offset
            /\ offset = Len(buffer) =>
                 /\ result'.ret.val = None
                 /\ <<buffer, offset, yielded>>' = <<buffer, offset, yielded>>]_vars
\* None was returned after two views or more, the last one empty
C7_Witness ==
    /\ pc = "split"
    /\ result.op = "next"
    /\ result.ret.val = None
    /\ offset = Len(buffer)
    /\ Len(yielded) >= 2
    /\ len(yielded[Len(yielded)].view) = 0

\* the storage st holds, in the range of each of the views vs, that view
Intact(vs, st) ==
    \A j \in 1..Len(vs) : SubSeq(st, vs[j].lo + 1, vs[j].hi) = vs[j].view
\* the ranges of the views vs are disjoint
Disjoint(vs) ==
    \A i, j \in 1..Len(vs) : i < j => vs[i].hi <= vs[j].lo
\* the step leaves every element of buffer but those at the indices ws
OnlyWrote(ws) ==
    /\ Len(buffer') = Len(buffer)
    /\ \A k \in 1..Len(buffer) :
         (\A w \in 1..Len(ws) : ws[w] + 1 # k) => buffer'[k] = buffer[k]

\* C13, as stated: every next() call writes exactly one buffer position, at
\* or after the current offset, so the regions of the views yielded before
\* are unchanged by the call and the views yielded do not overlap.
C13_EveryNextWritesOne ==
    [][pc = "split" =>
         /\ Len(result'.arg) = 1
         /\ result'.arg[1] >= offset
         /\ OnlyWrote(result'.arg)
         /\ Intact(yielded, buffer')
         /\ Disjoint(yielded')]_vars

\* C13, amended: a next() call that yields a view writes exactly one buffer
\* position, at or after the current offset, and a call that returns None
\* writes none; either way the regions of the views yielded before are
\* unchanged by the call and the views yielded do not overlap.
C13_YieldingNextWritesOne ==
    [][pc = "split" =>
         /\ IF result'.ret.val # None
            THEN /\ Len(result'.arg) = 1
                 /\ result'.arg[1] >= offset
                 /\ result'.arg[1] < Len(buffer)
            ELSE result'.arg = <<>>
         /\ OnlyWrote(result'.arg)
         /\ SubSeq(yielded', 1, Len(yielded)) = yielded
         /\ Intact(yielded, buffer')
         /\ Intact(yielded', buffer')
         /\ Disjoint(yielded')]_vars
\* a third view was yielded on ';', by a call that wrote one position
C13_Witness ==
    /\ pc = "split"
    /\ delim = 59
    /\ result.op = "next"
    /\ result.ret.val # None
    /\ Len(result.arg) = 1
    /\ Len(yielded) >= 3
    /\ Intact(yielded, buffer)

\* ------------------------------------------------------------ formatting
InitFmt ==
    /\ \E p \in FmtPayloads : Built(p)
    /\ NoSplit
    /\ NoFmt

\* {:?} of the borrowed view over the buffer
FmtWCStr ==
    /\ pc = "owned"
    /\ stack = <<>>
    /\ out' = wcstr_fmt(deref(inner))
    /\ result' = Call("fmt_wcstr", inner, Ok(out'))
    /\ UNCHANGED <<pc, inner, origin, stack, splitVars>>

\* {:?} of the owned buffer: Debug for WCString is entered
FmtWCString ==
    /\ pc = "owned"
    /\ stack = <<>>
    /\ stack' = <<"WCString">>
    /\ out' = <<>>
    /\ UNCHANGED <<pc, inner, origin, result, splitVars>>

\* the innermost fmt makes its call; a frame too many overflows the stack
FmtCall ==
    /\ pc = "owned"
    /\ stack # <<>>
    /\ IF Len(stack) < MaxStack
       THEN /\ stack' = Append(stack, wcstring_fmt_callee(stack[Len(stack)]))
            /\ UNCHANGED pc
       ELSE /\ pc' = "stack_overflow"
            /\ UNCHANGED stack
    /\ UNCHANGED <<inner, origin, result, out, splitVars>>

NextFmt ==
    \/ FmtWCStr
    \/ FmtWCString
    \/ FmtCall

SpecFmt == InitFmt /\ [][NextFmt]_vars

\* C8: debug-formatting a WCString returns, without panicking, and writes
\* what debug-formatting the WCStr over the same storage writes.
\* (a call of Debug for WCString that returned would be the call
\* "fmt_wcstring" in result; the stack is empty when no fmt is in progress)
C8_DebugOwnedAsView ==
    /\ pc # "stack_overflow"
    /\ result.op = "fmt_wcstring" =>
         /\ stack = <<>>
         /\ result.ret.val = wcstr_fmt(deref(result.arg))

\* ------------------------------------------------------------ prefixes
\* the views a caller can hand to starts_with: those of owned buffers
Candidates ==
    {from_vec(s).val : s \in {x \in Vecs : from_vec(x).ok}}
        \cup {from_str(t).val : t \in {x \in Texts : from_str(x).ok}}

StartsWith ==
    /\ pc = "owned"
    /\ \E c \in Candidates :
         result' = Call("starts_with", c, Ok(<<starts_with(deref(inner), c)>>))
    /\ UNCHANGED <<pc, inner, origin, splitVars, fmtVars>>

StartsWithStr ==
    /\ pc = "owned"
    /\ \E t \in Texts :
         result' = Call("starts_with_str", t, Ok(<<starts_with_str(deref(inner), t)>>))
    /\ UNCHANGED <<pc, inner, origin, splitVars, fmtVars>>

NextPrefix ==
    \/ FromVec
    \/ FromStr
    \/ StartsWith
    \/ StartsWithStr

SpecPrefix == Init /\ [][NextPrefix]_vars

\* the units u are the first Len(u) units of the payload of the view v
IsPrefix(u, v) ==
    /\ Len(u) <= len(v)
    /\ \A k \in 1..Len(u) : v[k] = u[k]

\* C10: v.starts_with(c) is true iff c is no longer than v and the first
\* c.len() units of v are c's; v.starts_with_str(text) is true iff all the
\* encoded units of text, a zero included, are such a prefix of v's payload,
\* and equals v.starts_with(from_str(text)) for a text without nul.
C10_StartsWith ==
    /\ result.op = "starts_with" =>
         result.ret.val[1] = IsPrefix(to_slice(result.arg), inner)
    /\ result.op = "starts_with_str" =>
         /\ result.ret.val[1] = IsPrefix(encode_wide(result.arg), inner)
         /\ NulFree(result.arg) =>
              result.ret.val[1] = starts_with(deref(inner), from_str(result.arg).val)
\* a candidate of two units that is a proper prefix of the view
C10_Witness ==
    /\ result.op = "starts_with"
    /\ result.ret.val[1]
    /\ len(result.arg) = 2
    /\ len(inner) > 2
====
